---- MODULE Spec2Model ----
(***************************************************************************)
(* The streaming pronunciation-scoring client of PandaTalk:                *)
(* SpeechRecognitionService in src/services/speech-recognition.ts.         *)
(*                                                                         *)
(* One client instance (the exported singleton) holds a transport          *)
(* reference, a connected flag and a heartbeat interval.  evaluateSpeech   *)
(* runs up to maxRetries attempts; each attempt opens a transport, sends a *)
(* configuration frame, streams the audio in chunks and waits for the      *)
(* result.  The transports, their events and the timers are the            *)
(* environment: every step of the model is one task of the JavaScript      *)
(* event loop (a transport event, a timer firing or the call of            *)
(* evaluateSpeech), together with the promise continuations it wakes.      *)
(***************************************************************************)
EXTENDS Integers, Sequences, FiniteSets, TLC

(* ----------------------------- constants ------------------------------ *)

\* evaluateSpeech: const maxRetries = 3
maxRetries == 3

\* audioConfig.chunk_size
chunk_size == 2560

\* Number of evaluateSpeech() calls made on the instance.
MaxCalls == 2

\* Envelopes the server sends during one result wait.
MaxMessages == 2

\* A further call is made on an instance that has created fewer transports
\* than this.
MaxSockets == 2

\* Once calls have overlapped, a failed attempt is retried on an instance
\* that has created fewer transports than this.
MaxOverlapSockets == 2

Calls == 1 .. MaxCalls

\* Audio buffers handed to evaluateSpeech, by byte length: empty, shorter
\* than one chunk, one full chunk followed by a short one.
AudioLens == {0, chunk_size \div 2, chunk_size + (chunk_size \div 2)}

(* ------------------------------ payloads ------------------------------ *)

\* A text payload is the sequence of its elements.  <tag>content</tag> has
\* val = the number its content denotes when the content is a string of
\* digits, val = -1 when it is anything else ("87.5", "-3", "", "good").
\* An element <word ...> has the tag "word" and val = its content
\* attribute, -1 when it has none.
\* The audio of a call made while another is in flight: two chunks.
OverlapAudioLen == chunk_size + (chunk_size \div 2)

Dimensions ==
  {"overall", "pronunciation", "fluency", "integrity", "tone", "accuracy",
   "emotion"}

PrimaryTag(d) ==
  CASE d = "overall" -> "overall_score"
    [] d = "pronunciation" -> "pronunciation_score"
    [] d = "fluency" -> "fluency_score"
    [] d = "integrity" -> "integrity_score"
    [] d = "tone" -> "tone_score"
    [] d = "accuracy" -> "accuracy_score"
    [] OTHER -> "emotion_score"

Payload1 == << [tag |-> "overall_score", val |-> 87] >>

Payload2 ==
  << [tag |-> "overall", val |-> 54], [tag |-> "fluency_score", val |-> 0] >>

Payloads == {Payload1, Payload2}

\* data.data of an envelope: absent, the empty string, a string that is
\* not empty, or a JSON value that is truthy and not a string (a number, an
\* object, an array, true).
NoData == [type |-> "none", xml |-> << >>]

EmptyData == [type |-> "empty", xml |-> << >>]

TextData(p) == [type |-> "text", xml |-> p]

OpaqueData == [type |-> "opaque", xml |-> << >>]

\* if (data.data.data): neither absent nor "".
Truthy(data) == data.type \in {"text", "opaque"}

\* What the server can put on the wire.  json = FALSE: JSON.parse throws,
\* or yields a value (null) whose keys cannot be listed.  code = 0 stands
\* for a code that is absent or 0.  status = 0 with hasData = FALSE: the
\* envelope has no data member.
Envelope(kind, json, code, hasData, status, data, action) ==
  [kind |-> kind, json |-> json, code |-> code, hasData |-> hasData,
   status |-> status, data |-> data, action |-> action]

Envelopes ==
  { Envelope("malformed", FALSE, 0, FALSE, 0, NoData, ""),
    Envelope("apiError", TRUE, 10105, FALSE, 0, NoData, ""),
    Envelope("interim", TRUE, 0, TRUE, 1, TextData(Payload2), ""),
    Envelope("interimEmpty", TRUE, 0, TRUE, 1, NoData, ""),
    Envelope("finalEmpty", TRUE, 0, TRUE, 2, NoData, ""),
    Envelope("finalOpaque", TRUE, 0, TRUE, 2, OpaqueData, ""),
    Envelope("rejected", TRUE, 0, TRUE, 3, NoData, ""),
    Envelope("noData", TRUE, 0, TRUE, 4, NoData, ""),
    Envelope("actionError", TRUE, 0, FALSE, 0, NoData, "error") }
  \cup { Envelope("final", TRUE, 0, TRUE, 2, TextData(p), "") : p \in Payloads }

\* What the peer sends once calls have overlapped: the envelopes that end
\* a wait with a result or with a rejection.
OverlapEnvelopes == {e \in Envelopes : e.kind \in {"final", "rejected"}}

(* ---------------------------- result parser --------------------------- *)

\* xmlData.match(/<tag>(\d+)<\/tag>/): the first element with that tag
\* whose content is a string of digits.
MatchTag(xml, tag) ==
  LET hits == {i \in 1 .. Len(xml) : xml[i].tag = tag /\ xml[i].val >= 0}
  IN IF hits = {} THEN << >>
     ELSE << xml[CHOOSE i \in hits : \A j \in hits : i <= j].val >>

\* The named part of extractScoresFromXML: per dimension the primary tag,
\* else the alternate tag, else the key stays unset.
NamedScores(xml) ==
  [d \in Dimensions |->
     IF MatchTag(xml, PrimaryTag(d)) # << >> THEN MatchTag(xml, PrimaryTag(d))
     ELSE MatchTag(xml, d)]

\* xmlData.match(/<(\w+_?score|\w+)>(\d+)<\/\1>/g): the elements
\* <tag>digits</tag>, which an element <word ...> is not.
ScoreMatches(xml) ==
  {i \in 1 .. Len(xml) : xml[i].val >= 0 /\ xml[i].tag # "word"}

\* scores[tagName] = scoreValue over the matches in order: per tag name
\* the value of its last match.
ScannedScores(xml) ==
  [k \in {xml[i].tag : i \in ScoreMatches(xml)} |->
     LET hits == {i \in ScoreMatches(xml) : xml[i].tag = k}
     IN << xml[CHOOSE i \in hits : \A j \in hits : j <= i].val >>]

\* extractScoresFromXML with the generic scan run whenever a dimension
\* was not found by name.
extractScoresScanIfAnyMissing(xml) ==
  LET named == NamedScores(xml)
      scanned == ScannedScores(xml)
  IN IF \A d \in Dimensions : named[d] # << >> THEN named
     ELSE [k \in Dimensions \cup DOMAIN scanned |->
             IF k \in Dimensions /\ named[k] # << >> THEN named[k]
             ELSE IF k \in DOMAIN scanned THEN scanned[k] ELSE << >>]

\* extractScoresFromXML: the scores object, a key being unset where its
\* value is << >>.  The generic scan runs when the named part set no key
\* (Object.keys(scores).length === 0) and stores its finds under their tag
\* names.
extractScoresFromXML(xml) ==
  LET named == NamedScores(xml)
      scanned == ScannedScores(xml)
  IN IF \E d \in Dimensions :
          MatchTag(xml, PrimaryTag(d)) # << >> \/ MatchTag(xml, d) # << >>
     THEN named
     ELSE [k \in Dimensions \cup DOMAIN scanned |->
             IF k \in DOMAIN scanned THEN scanned[k] ELSE << >>]

\* One entry of word_details: the attributes but content are not modelled
\* and have their defaults.
WordDetail(content) ==
  [content |-> content, symbol |-> "", beg_pos |-> 0, end_pos |-> 0,
   time_len |-> 0, errors |-> << >>]

\* extractWordDetailsFromXML: one entry per <word ...> element that has a
\* content attribute, in payload order.
RECURSIVE extractWordDetailsFromXML(_)
extractWordDetailsFromXML(xml) ==
  IF xml = << >> THEN << >>
  ELSE IF xml[1].tag = "word" /\ xml[1].val >= 0
  THEN << WordDetail(xml[1].val) >> \o extractWordDetailsFromXML(Tail(xml))
  ELSE extractWordDetailsFromXML(Tail(xml))

\* parseRealResult on an envelope whose data.data is truthy: scores.x || 0.
\* On a payload that is not a string both extractors catch the TypeError
\* and return nothing found (xml = << >>).
parseRealResult(e) ==
  LET scores == extractScoresFromXML(e.data.xml)
  IN [score |-> [d \in Dimensions |->
                   LET v == scores[d] IN IF v = << >> THEN 0 ELSE v[1]],
      word_details |-> extractWordDetailsFromXML(e.data.xml),
      is_rejected |-> (e.status = 3),
      except_info |-> IF e.status = 3 THEN "rejected" ELSE "",
      raw_result |-> e]

(* ------------------------------- errors ------------------------------- *)

\* new Error(msg): the texts of the source, in ASCII; n is the chunk
\* number of a failed chunk send, 0 otherwise.
Err(msg, n) == [msg |-> msg, n |-> n]

NoError == Err("", 0)

NoResult == [score |-> [d \in Dimensions |-> 0], word_details |-> << >>,
             is_rejected |-> FALSE, except_info |-> "", raw_result |-> << >>]

\* parseRealResult that takes a result without any score for a failure.
parseRealResultStrict(e) ==
  IF e.json /\ e.hasData /\ Truthy(e.data)
     /\ \E d \in Dimensions : extractScoresFromXML(e.data.xml)[d] # << >>
  THEN [raised |-> FALSE, result |-> parseRealResult(e)]
  ELSE [raised |-> TRUE, result |-> NoResult]

\* A call of parseRealResult(data): what it returns, or that it threw
\* (data.data or data.data.data falsy, or data not an object).
parseRealResultCall(e) ==
  IF e.json /\ e.hasData /\ Truthy(e.data)
  THEN [raised |-> FALSE, result |-> parseRealResult(e)]
  ELSE [raised |-> TRUE, result |-> NoResult]

\* How an evaluateSpeech() call settled.
Pending == [kind |-> "pending", attempts |-> 0, error |-> NoError,
            result |-> NoResult]

Returned(r) == [kind |-> "result", attempts |-> 0, error |-> NoError,
                result |-> r]

\* throw new Error(`...已重试${maxRetries}次: ${error.message}`)
Aggregated(err) == [kind |-> "error", attempts |-> maxRetries, error |-> err,
                    result |-> NoResult]

(* -------------------------------- state ------------------------------- *)

VARIABLES
  websocket,          \* this.websocket: a transport of sockets, 0 = null
  isConnected,        \* this.isConnected
  keepAliveInterval,  \* this.keepAliveInterval: an interval timer, 0 = null
  sockets,            \* every WebSocket object created so far, in order
  intervals,          \* the interval timers that are set and not cleared
  call,               \* the evaluateSpeech() invocations
  overlapped,         \* a call was started while another was in flight
  parserRun,          \* a call of parseRealResult on its own: input, output
  framerRun,          \* a run of the chunk loop on its own: input, frames
  signerRun           \* the connection attempts against the clock

\* The client instance and its calls
instance ==
  << websocket, isConnected, keepAliveInterval, sockets, intervals, call,
     overlapped >>

vars == << instance, parserRun, framerRun, signerRun >>

\* The program state as one value, so that a handler and the continuations
\* it wakes compose as functions.
Now ==
  [websocket |-> websocket, isConnected |-> isConnected,
   keepAliveInterval |-> keepAliveInterval, sockets |-> sockets,
   intervals |-> intervals, call |-> call]

Becomes(s) ==
  /\ websocket' = s.websocket
  /\ isConnected' = s.isConnected
  /\ keepAliveInterval' = s.keepAliveInterval
  /\ sockets' = s.sockets
  /\ intervals' = s.intervals
  /\ call' = s.call
  /\ UNCHANGED << parserRun, framerRun, signerRun >>

\* One evaluateSpeech() invocation: where it is suspended, its locals
\* (retryCount, the loop offset i, waitTime), the transport whose connect()
\* promise it awaits, and the closure of its current receiveResult()
\* (timeout, hasReceivedFinalResult, messageCount).  attempts counts its
\* connect() calls, emptyFinals counts, where the result wait is observed,
\* the status 2 envelopes without payload that closure handled, interim
\* tells whether that closure handled a status 1
\* envelope carrying a payload, settles counts its returns and throws to
\* the caller.
IdleCall ==
  [pc |-> "idle", text |-> 0, audio |-> 0, retryCount |-> 0, attempts |-> 0,
   i |-> 0, sock |-> 0, waitTime |-> 0, timeout |-> FALSE,
   hasReceivedFinalResult |-> FALSE, messageCount |-> 0, interim |-> FALSE,
   emptyFinals |-> 0, outcome |-> Pending, settles |-> 0]

InFlight(c) == call[c].pc \notin {"idle", "done"}

\* The invocation after a throw inside the try block: the loop variable
\* and the closure of receiveResult() are out of scope.
Unwound(k) ==
  [k EXCEPT !.i = 0, !.sock = 0, !.hasReceivedFinalResult = FALSE,
            !.messageCount = 0, !.interim = FALSE, !.emptyFinals = 0]

\* A settled invocation whose outcome the caller has taken.
Settled == [IdleCall EXCEPT !.pc = "done"]

\* A WebSocket object.  handlers = << >>: onerror and onclose are those
\* connect() assigned and there is no onmessage; handlers = <<c, k>>:
\* onmessage, onerror and onclose are those of the receiveResult() of call
\* c in its attempt k.  onopen is always connect()'s.  frames logs the
\* send() calls; closedBy is the call whose catch block closed it; unheard
\* tells whether a message event found no onmessage handler.
NewSocket(c, k) ==
  [owner |-> c, attempt |-> k, readyState |-> "CONNECTING",
   connectionTimeout |-> TRUE, handlers |-> << >>, frames |-> << >>,
   closedBy |-> 0, unheard |-> FALSE]

\* Whether the receiveResult() promise behind the handlers h is unsettled.
ReceivePending(s, h) ==
  /\ h # << >>
  /\ s.call[h[1]].pc = "awaiting"
  /\ s.call[h[1]].retryCount = h[2]

\* What the model keeps of a transport once a newer one exists.  send() is
\* only ever called on this.websocket, which is then the newer one, so the
\* log of the older one is final.  A transport that has closed gets no
\* event any more.  One whose handlers are those of a settled
\* receiveResult() still gets events, but its handlers change nothing: the
\* model keeps only whether the client left it open.
Gone ==
  [owner |-> 0, attempt |-> 0, readyState |-> "CLOSED",
   connectionTimeout |-> FALSE, handlers |-> << >>, frames |-> << >>,
   closedBy |-> 0, unheard |-> FALSE]

Leaked == [Gone EXCEPT !.readyState = "OPEN"]

Retire(s, sock) ==
  IF sock.connectionTimeout THEN [sock EXCEPT !.frames = << >>, !.closedBy = 0, !.unheard = FALSE]
  ELSE IF sock.readyState = "CLOSED" THEN Gone
  ELSE IF sock.handlers # << >> /\ ~ReceivePending(s, sock.handlers)
          /\ sock.readyState # "CONNECTING"
  THEN IF sock.readyState = "OPEN" THEN Leaked ELSE Gone
  ELSE [sock EXCEPT !.frames = << >>, !.closedBy = 0, !.unheard = FALSE]

(* ------------------------------- frames ------------------------------- *)

Frame(kind, status, aus, text, offset, len, by) ==
  [kind |-> kind, status |-> status, aus |-> aus, text |-> text,
   offset |-> offset, len |-> len, by |-> by, readyState |-> "OPEN"]

\* The code point of the byte order mark.
BOM == 65279

\* `\uFEFF${text}`: a text is the sequence of its parts, the target text
\* being one part.
Prefixed(text) == << BOM >> \o << text >>

\* sendConfig: data.status = 0, business.aus = 1, text = BOM + text
ConfigFrame(c, text) == Frame("config", 0, 1, Prefixed(text), 0, 0, c)

\* sendAudioChunk with data.status = 2 on every chunk but the first.
AudioFrameStatusByFirst(c, offset, len, isLast, isFirst) ==
  Frame("audio", IF isFirst THEN 1 ELSE 2,
        IF isLast THEN 4 ELSE IF isFirst THEN 1 ELSE 2, << >>, offset, len, c)

\* sendAudioChunk with the two tests of aus in the other order: a chunk
\* that is first and last is marked first.
AudioFrameFirstWins(c, offset, len, isLast, isFirst) ==
  Frame("audio", IF isLast THEN 2 ELSE 1,
        IF isFirst THEN 1 ELSE IF isLast THEN 4 ELSE 2, << >>, offset, len, c)

\* sendAudioChunk: aus 1 first, 4 last, 2 otherwise; status 2 on the last
AudioFrame(c, offset, len, isLast, isFirst) ==
  Frame("audio", IF isLast THEN 2 ELSE 1,
        IF isLast THEN 4 ELSE IF isFirst THEN 1 ELSE 2, << >>, offset, len, c)

\* startKeepAlive: { data: { status: 1, data: "", data_type: 1 } }
HeartbeatFrame == Frame("heartbeat", 1, 0, << >>, 0, 0, 0)

\* WebSocket.send on transport t.  It throws while the transport is
\* CONNECTING and otherwise returns; after the transport has closed the
\* data is dropped.  The log keeps the state the transport was in.  Of the
\* heartbeats it keeps those sent since the last other frame, as one entry.
wsSend(s, t, frame) ==
  LET rs == s.sockets[t].readyState
      f == [frame EXCEPT !.readyState = rs]
      log == s.sockets[t].frames
      kept == IF Len(log) > 0 /\ log[Len(log)].kind = "heartbeat"
              THEN SubSeq(log, 1, Len(log) - 1)
              ELSE log
  IN IF rs = "CONNECTING" THEN [s |-> s, ok |-> FALSE]
     ELSE [s |-> [s EXCEPT !.sockets[t].frames = Append(kept, f)],
           ok |-> TRUE]

\* WebSocket.close on transport t.
wsClose(s, t) ==
  IF s.sockets[t].readyState \in {"CONNECTING", "OPEN"}
  THEN [s EXCEPT !.sockets[t].readyState = "CLOSING"]
  ELSE s

(* --------------------------- service methods -------------------------- *)

\* startKeepAlive without the clearInterval of the interval set before.
startKeepAliveNoClear(s, id) ==
  [s EXCEPT !.intervals = @ \cup {id}, !.keepAliveInterval = id]

\* startKeepAlive, the interval it sets being numbered id.
startKeepAlive(s, id) ==
  LET cleared == IF s.keepAliveInterval # 0
                 THEN s.intervals \ {s.keepAliveInterval}
                 ELSE s.intervals
  IN [s EXCEPT !.intervals = cleared \cup {id}, !.keepAliveInterval = id]

stopKeepAlive(s) ==
  IF s.keepAliveInterval # 0
  THEN [s EXCEPT !.intervals = @ \ {s.keepAliveInterval},
                 !.keepAliveInterval = 0]
  ELSE s

\* close() that leaves the heartbeat interval running.
closeTransportOnly(s, c) ==
  LET t == s.websocket
  IN IF t # 0
     THEN [wsClose(s, t) EXCEPT !.sockets[t].closedBy = c,
                                !.websocket = 0, !.isConnected = FALSE]
     ELSE s

\* close(), called by the catch block of call c.
close(s, c) ==
  LET s1 == stopKeepAlive(s)
      t == s1.websocket
  IN IF t # 0
     THEN [wsClose(s1, t) EXCEPT !.sockets[t].closedBy = c,
                                 !.websocket = 0, !.isConnected = FALSE]
     ELSE s1

\* destroy() that only cleans the network listener up.
destroyListenerOnly(s) == s

\* destroy(): close(), then cleanupNetworkListener(), which does nothing.
\* The transport it closes is marked closed by -1, no call.
destroy(s) == close(s, -1)

\* connect() up to the return of its promise: sign, arm the 15 s timer,
\* create the transport, store it in this.websocket, assign the handlers.
connect(s, c) ==
  LET t == Len(s.sockets) + 1
      older == [u \in 1 .. Len(s.sockets) |-> Retire(s, s.sockets[u])]
  IN [s EXCEPT !.sockets = Append(older, NewSocket(c, s.call[c].retryCount)),
               !.websocket = t,
               !.call[c].sock = t,
               !.call[c].attempts = @ + 1,
               !.call[c].pc = "connecting"]

sendConfig(s, c) ==
  IF s.websocket = 0 \/ ~s.isConnected
  THEN [s |-> s, ok |-> FALSE]
  ELSE wsSend(s, s.websocket, ConfigFrame(c, s.call[c].text))

\* sendAudioChunk as it would be if each call sent on the transport its
\* own connect() created, and not on this.websocket.
sendAudioChunkOnOwn(s, c, offset, len, isLast, isFirst) ==
  IF s.call[c].sock = 0 \/ ~s.isConnected
  THEN [s |-> s, ok |-> FALSE]
  ELSE wsSend(s, s.call[c].sock, AudioFrame(c, offset, len, isLast, isFirst))

\* sendAudioChunk testing this.websocket only, not this.isConnected.
sendAudioChunkUnlessNull(s, c, offset, len, isLast, isFirst) ==
  IF s.websocket = 0
  THEN [s |-> s, ok |-> FALSE]
  ELSE wsSend(s, s.websocket, AudioFrame(c, offset, len, isLast, isFirst))

sendAudioChunk(s, c, offset, len, isLast, isFirst) ==
  IF s.websocket = 0 \/ ~s.isConnected
  THEN [s |-> s, ok |-> FALSE]
  ELSE wsSend(s, s.websocket, AudioFrame(c, offset, len, isLast, isFirst))

\* The catch block with the test retryCount > maxRetries: one attempt more.
catchBlockOneMore(s, c, err) ==
  LET n == s.call[c].retryCount + 1
      s1 == close([s EXCEPT !.call[c] =
                     [Unwound(@) EXCEPT !.retryCount = n]], c)
  IN IF n > maxRetries
     THEN [s1 EXCEPT !.call[c].pc = "done",
                     !.call[c].outcome = Aggregated(err),
                     !.call[c].settles = @ + 1]
     ELSE [s1 EXCEPT !.call[c].pc = "backoff",
                     !.call[c].waitTime = n * 1000]

\* The catch block that leaves the loop after the last attempt, so that
\* the throw after the loop reports the failure without its cause.
catchBlockFallsThrough(s, c, err) ==
  LET n == s.call[c].retryCount + 1
      s1 == close([s EXCEPT !.call[c] =
                     [Unwound(@) EXCEPT !.retryCount = n]], c)
  IN IF n >= maxRetries
     THEN [s1 EXCEPT !.call[c].pc = "done",
                     !.call[c].outcome = Aggregated(NoError),
                     !.call[c].settles = @ + 1]
     ELSE [s1 EXCEPT !.call[c].pc = "backoff",
                     !.call[c].waitTime = n * 1000]

\* The catch block waiting retryCount * 2000 ms.
catchBlockTwoSeconds(s, c, err) ==
  LET n == s.call[c].retryCount + 1
      s1 == close([s EXCEPT !.call[c] =
                     [Unwound(@) EXCEPT !.retryCount = n]], c)
  IN IF n >= maxRetries
     THEN [s1 EXCEPT !.call[c].pc = "done",
                     !.call[c].outcome = Aggregated(err),
                     !.call[c].settles = @ + 1]
     ELSE [s1 EXCEPT !.call[c].pc = "backoff",
                     !.call[c].waitTime = n * 2000]

\* The catch block of evaluateSpeech for the error err.
catchBlock(s, c, err) ==
  LET n == s.call[c].retryCount + 1
      s1 == close([s EXCEPT !.call[c] =
                     [Unwound(@) EXCEPT !.retryCount = n]], c)
  IN IF n >= maxRetries
     THEN [s1 EXCEPT !.call[c].pc = "done",
                     !.call[c].outcome = Aggregated(err),
                     !.call[c].settles = @ + 1]
     ELSE [s1 EXCEPT !.call[c].pc = "backoff",
                     !.call[c].waitTime = n * 1000]

\* return result (evaluateSpeech, after await this.receiveResult()).
returnResult(s, c, r) ==
  [s EXCEPT !.call[c].pc = "done", !.call[c].outcome = Returned(r),
            !.call[c].settles = @ + 1]

\* receiveResult() up to the return of its promise.
receiveResult(s, c) ==
  IF s.websocket = 0
  THEN catchBlock(s, c, Err("WebSocket not connected", 0))
  ELSE [s EXCEPT !.call[c].pc = "awaiting",
                 !.call[c].timeout = TRUE,
                 !.call[c].hasReceivedFinalResult = FALSE,
                 !.call[c].messageCount = 0,
                 !.call[c].interim = FALSE,
                 !.call[c].emptyFinals = 0,
                 !.sockets[s.websocket].handlers =
                   << c, s.call[c].retryCount >>]

\* The locals of an iteration with isLast = (i + size > byteLength).
ChunkLastPastEnd(byteLength, size, i) ==
  [len |-> IF i + size <= byteLength THEN size ELSE byteLength - i,
   isLast |-> (i + size > byteLength),
   isFirst |-> (i = 0),
   chunkNumber |-> (i \div size) + 1]

\* The locals of one iteration of the chunk loop, at offset i of audio of
\* byteLength bytes cut in chunks of size bytes: the length of
\* audioData.slice(i, i + size), isLast, isFirst and chunkNumber.
Chunk(byteLength, size, i) ==
  [len |-> IF i + size <= byteLength THEN size ELSE byteLength - i,
   isLast |-> (i + size >= byteLength),
   isFirst |-> (i = 0),
   chunkNumber |-> (i \div size) + 1]

\* The chunk loop going on to the next chunk after a chunk send failed.
sendLoopIgnoresFailure(s, c, i) ==
  LET audio == s.call[c].audio
      k == Chunk(audio, chunk_size, i)
      r == sendAudioChunk(s, c, i, k.len, k.isLast, k.isFirst)
  IN IF ~(i < audio) THEN [s EXCEPT !.call[c].pc = "draining", !.call[c].i = i]
     ELSE IF ~k.isLast
     THEN [r.s EXCEPT !.call[c].pc = "pacing", !.call[c].i = i]
     ELSE [r.s EXCEPT !.call[c].pc = "draining", !.call[c].i = i + chunk_size]

\* The body of the chunk loop at offset i, up to the next suspension: the
\* 30 ms pause after a chunk that is not the last, or the 300 ms pause
\* after the loop.
sendLoop(s, c, i) ==
  LET audio == s.call[c].audio
      k == Chunk(audio, chunk_size, i)
      r == sendAudioChunk(s, c, i, k.len, k.isLast, k.isFirst)
  IN IF ~(i < audio) THEN [s EXCEPT !.call[c].pc = "draining", !.call[c].i = i]
     ELSE IF ~r.ok
     THEN catchBlock([s EXCEPT !.call[c].i = i], c,
                     Err("chunk send failed", k.chunkNumber))
     ELSE IF ~k.isLast
     THEN [r.s EXCEPT !.call[c].pc = "pacing", !.call[c].i = i]
     ELSE [r.s EXCEPT !.call[c].pc = "draining", !.call[c].i = i + chunk_size]

\* evaluateSpeech going on to the chunk loop without sending the
\* configuration.
afterConnectSkipsConfig(s, c, ok) ==
  IF ~ok THEN catchBlock(s, c, Err("connect failed", 0))
  ELSE [s EXCEPT !.call[c].pc = "settling"]

\* evaluateSpeech sending the configuration in its first attempt only.
afterConnectConfigOnce(s, c, ok) ==
  LET r == sendConfig(s, c)
  IN IF ~ok THEN catchBlock(s, c, Err("connect failed", 0))
     ELSE IF s.call[c].retryCount > 0 THEN [s EXCEPT !.call[c].pc = "settling"]
     ELSE IF ~r.ok THEN catchBlock(s, c, Err("config send failed", 0))
     ELSE [r.s EXCEPT !.call[c].pc = "settling"]

\* After connect() resolved: ok = FALSE throws, else sendConfig and the
\* 200 ms pause.
afterConnect(s, c, ok) ==
  LET r == sendConfig(s, c)
  IN IF ~ok THEN catchBlock(s, c, Err("connect failed", 0))
     ELSE IF ~r.ok THEN catchBlock(s, c, Err("config send failed", 0))
     ELSE [r.s EXCEPT !.call[c].pc = "settling"]

\* Whether the connect() promise of transport t is still unsettled: its
\* creator is suspended on it.
ConnectPending(s, t) ==
  /\ s.call[s.sockets[t].owner].pc = "connecting"
  /\ s.call[s.sockets[t].owner].sock = t

\* resolve(ok) of the connect() promise of transport t.
resolveConnect(s, t, ok) ==
  IF ConnectPending(s, t) THEN afterConnect(s, s.sockets[t].owner, ok) ELSE s

(* --------------------------- event handlers --------------------------- *)

\* websocket.onopen, assigned by connect()
onopen(s, t) ==
  LET s1 == [s EXCEPT !.sockets[t].connectionTimeout = FALSE,
                      !.isConnected = TRUE]
  IN resolveConnect(startKeepAlive(s1, t), t, TRUE)

\* websocket.onerror: connect()'s, or the one receiveResult() put in its
\* place
onerror(s, t) ==
  LET h == s.sockets[t].handlers
  IN IF h = << >>
     THEN resolveConnect([s EXCEPT !.sockets[t].connectionTimeout = FALSE,
                                   !.isConnected = FALSE], t, FALSE)
     ELSE IF ReceivePending(s, h)
     THEN catchBlock([s EXCEPT !.call[h[1]].timeout = FALSE], h[1],
                     Err("WebSocket error", 0))
     ELSE s

\* websocket.onclose where the one of receiveResult() only clears the timer.
oncloseKeepsWaiting(s, t) ==
  LET h == s.sockets[t].handlers
  IN IF h = << >>
     THEN [s EXCEPT !.sockets[t].connectionTimeout = FALSE,
                    !.isConnected = FALSE]
     ELSE IF ReceivePending(s, h)
     THEN [s EXCEPT !.call[h[1]].timeout = FALSE]
     ELSE s

\* websocket.onclose: connect()'s, or the one receiveResult() put in its
\* place
onclose(s, t) ==
  LET h == s.sockets[t].handlers
  IN IF h = << >>
     THEN [s EXCEPT !.sockets[t].connectionTimeout = FALSE,
                    !.isConnected = FALSE]
     ELSE IF ReceivePending(s, h)
     THEN IF ~s.call[h[1]].hasReceivedFinalResult
          THEN catchBlock([s EXCEPT !.call[h[1]].timeout = FALSE], h[1],
                          Err("WebSocket closed", 0))
          ELSE [s EXCEPT !.call[h[1]].timeout = FALSE]
     ELSE s

\* The status 2 branch of onmessage for a payload that is not empty: the
\* timer is cleared and the flag set before the payload is used; a payload
\* that is not a string throws at substring(), which the handler's catch
\* swallows.
onFinalPayload(s, c, e) ==
  LET s1 == [s EXCEPT !.call[c].timeout = FALSE,
                      !.call[c].hasReceivedFinalResult = TRUE]
  IN IF e.data.type = "text" THEN returnResult(s1, c, parseRealResult(e))
     ELSE s1

\* onmessage resolving with a result marked rejected where the source
\* rejects the promise.
rejectMessageAsResult(s, c, err) ==
  returnResult([s EXCEPT !.call[c].timeout = FALSE], c,
               [NoResult EXCEPT !.is_rejected = TRUE,
                                !.except_info = err.msg])

\* reject(err) in onmessage, after clearTimeout(timeout)
rejectMessage(s, c, err) ==
  catchBlock([s EXCEPT !.call[c].timeout = FALSE], c, err)

\* onmessage taking any envelope that carries a payload for the final
\* one, whatever its status.
onmessageAnyPayload(s, c, e) ==
  LET s1 == [s EXCEPT !.call[c].messageCount = @ + 1,
                      !.call[c].interim = (@ \/ e.kind = "interim")]
  IN IF ~e.json THEN s1
     ELSE IF e.code # 0 THEN rejectMessage(s1, c, Err("API error", 0))
     ELSE IF e.hasData /\ Truthy(e.data)
     THEN onFinalPayload(s1, c, e)
     ELSE IF e.hasData /\ e.status = 1 THEN s1
     ELSE IF e.hasData /\ e.status = 3
     THEN rejectMessage(s1, c, Err("evaluation rejected", 0))
     ELSE IF e.hasData /\ e.status = 4
     THEN rejectMessage(s1, c, Err("evaluation finished without data", 0))
     ELSE IF e.action = "error"
     THEN rejectMessage(s1, c, Err("API action error", 0))
     ELSE s1

\* onmessage resolving with an empty result on data.status = 4.
onmessageNoDataResolves(s, c, e) ==
  LET s1 == [s EXCEPT !.call[c].messageCount = @ + 1,
                      !.call[c].interim = (@ \/ e.kind = "interim")]
  IN IF ~e.json THEN s1
     ELSE IF e.code # 0 THEN rejectMessage(s1, c, Err("API error", 0))
     ELSE IF e.hasData /\ e.status = 1 THEN s1
     ELSE IF e.hasData /\ e.status = 2 /\ Truthy(e.data)
     THEN onFinalPayload(s1, c, e)
     ELSE IF e.hasData /\ e.status = 3
     THEN rejectMessage(s1, c, Err("evaluation rejected", 0))
     ELSE IF e.hasData /\ e.status = 4
     THEN returnResult([s1 EXCEPT !.call[c].timeout = FALSE], c, NoResult)
     ELSE IF e.action = "error"
     THEN rejectMessage(s1, c, Err("API action error", 0))
     ELSE s1

\* onmessage whose status 2 branch does not test the payload.
onmessageFinalUnchecked(s, c, e) ==
  LET s1 == [s EXCEPT !.call[c].messageCount = @ + 1,
                      !.call[c].interim = (@ \/ e.kind = "interim")]
  IN IF ~e.json THEN s1
     ELSE IF e.code # 0 THEN rejectMessage(s1, c, Err("API error", 0))
     ELSE IF e.hasData /\ e.status = 1 THEN s1
     ELSE IF e.hasData /\ e.status = 2
     THEN onFinalPayload(s1, c, e)
     ELSE IF e.hasData /\ e.status = 3
     THEN rejectMessage(s1, c, Err("evaluation rejected", 0))
     ELSE IF e.hasData /\ e.status = 4
     THEN rejectMessage(s1, c, Err("evaluation finished without data", 0))
     ELSE IF e.action = "error"
     THEN rejectMessage(s1, c, Err("API action error", 0))
     ELSE s1

\* websocket.onmessage of the receiveResult() of call c, while its promise
\* is unsettled
onmessage(s, c, e) ==
  LET s1 == [s EXCEPT !.call[c].messageCount = @ + 1,
                      !.call[c].interim = (@ \/ e.kind = "interim")]
  IN IF ~e.json THEN s1
     ELSE IF e.code # 0 THEN rejectMessage(s1, c, Err("API error", 0))
     ELSE IF e.hasData /\ e.status = 1 THEN s1
     ELSE IF e.hasData /\ e.status = 2 /\ Truthy(e.data)
     THEN onFinalPayload(s1, c, e)
     ELSE IF e.hasData /\ e.status = 3
     THEN rejectMessage(s1, c, Err("evaluation rejected", 0))
     ELSE IF e.hasData /\ e.status = 4
     THEN rejectMessage(s1, c, Err("evaluation finished without data", 0))
     ELSE IF e.action = "error"
     THEN rejectMessage(s1, c, Err("API action error", 0))
     ELSE s1

\* The callback of connect()'s 15 s timer for transport t
onConnectionTimeout(s, t) ==
  LET s1 == [s EXCEPT !.sockets[t].connectionTimeout = FALSE]
      w == s1.websocket
  IN IF w # 0 /\ s1.sockets[w].readyState = "CONNECTING"
     THEN resolveConnect(wsClose(s1, w), t, FALSE)
     ELSE s1

\* The callback of receiveResult()'s 90 s timer
onResultTimeout(s, c) ==
  LET s1 == [s EXCEPT !.call[c].timeout = FALSE]
  IN IF s1.call[c].pc = "awaiting"
     THEN catchBlock(s1, c, Err("result timeout", 0))
     ELSE s1

\* The callback of the 30 s heartbeat interval
onKeepAlive(s) ==
  IF s.websocket # 0 /\ s.isConnected
  THEN wsSend(s, s.websocket, HeartbeatFrame).s
  ELSE s

(* -------------------------------- steps ------------------------------- *)

\* The instance after construction, no call made.
InitInstance ==
  /\ websocket = 0
  /\ isConnected = FALSE
  /\ keepAliveInterval = 0
  /\ sockets = << >>
  /\ intervals = {}
  /\ call = [c \in Calls |-> IdleCall]
  /\ overlapped = FALSE

\* No separate run of the parser.
ParserIdle ==
  [input |-> Envelope("finalEmpty", TRUE, 0, TRUE, 2, NoData, ""),
   done |-> FALSE, raised |-> FALSE, result |-> NoResult]

\* No connection attempt made, the clock at its start.
SignerIdle ==
  [now |-> 0, pc |-> "idle", calls |-> 0, retryCount |-> 0, wakeAt |-> 0,
   attempts |-> << >>]

\* No separate run of the chunk loop.
FramerIdle ==
  [byteLength |-> 0, chunk_size |-> 1, i |-> 0, frames |-> << >>,
   done |-> FALSE]

Init ==
  /\ InitInstance
  /\ parserRun = ParserIdle
  /\ framerRun = FramerIdle
  /\ signerRun = SignerIdle

Sockets == 1 .. Len(sockets)

\* Calls are numbered in the order they are made.
NextToCall(c) ==
  /\ call[c].pc = "idle"
  /\ \A d \in Calls : d < c => call[d].pc # "idle"

Invoke(c, audio) ==
  LET taken == [d \in Calls |-> IF call[d].pc = "done" THEN Settled
                                ELSE call[d]]
  IN connect([Now EXCEPT !.call = [taken EXCEPT ![c] =
                [IdleCall EXCEPT !.text = c, !.audio = audio]]], c)

\* evaluateSpeech(text, audioData) by a caller that awaits each call
evaluateSpeech(c, audio) ==
  /\ NextToCall(c)
  /\ Len(sockets) < MaxSockets
  /\ \A d \in Calls : ~InFlight(d)
  /\ Becomes(Invoke(c, audio))
  /\ UNCHANGED overlapped

\* evaluateSpeech(text, audioData) while an earlier call is in flight; one
\* such overlap is followed.
evaluateSpeechOverlapping(c, audio) ==
  /\ NextToCall(c)
  /\ Len(sockets) < MaxSockets
  /\ \E d \in Calls : InFlight(d)
  /\ ~overlapped
  /\ Becomes(Invoke(c, audio))
  /\ overlapped' = TRUE

\* The transport opens.
SocketOpen(t) ==
  /\ sockets[t].readyState = "CONNECTING"
  /\ Becomes(onopen([Now EXCEPT !.sockets[t].readyState = "OPEN"], t))
  /\ UNCHANGED overlapped

\* The connection fails: the transport closes, an error event and then a
\* close event are dispatched.
SocketError(t) ==
  /\ sockets[t].readyState \in {"CONNECTING", "OPEN", "CLOSING"}
  /\ sockets[t] # Leaked
  /\ Becomes(onclose(onerror([Now EXCEPT !.sockets[t].readyState = "CLOSED"],
                             t), t))
  /\ UNCHANGED overlapped

\* The connection closes (the peer closes it, or the close the client
\* asked for completes): a close event is dispatched.
SocketClose(t) ==
  /\ sockets[t].readyState \in {"OPEN", "CLOSING"}
  /\ sockets[t] # Leaked
  /\ Becomes(onclose([Now EXCEPT !.sockets[t].readyState = "CLOSED"], t))
  /\ UNCHANGED overlapped

\* An envelope arrives on a transport whose onmessage belongs to an
\* unsettled receiveResult(); on any other transport it changes nothing.
SocketMessage(t, e) ==
  /\ sockets[t].readyState = "OPEN"
  /\ ReceivePending(Now, sockets[t].handlers)
  /\ call[sockets[t].handlers[1]].messageCount < MaxMessages
  /\ overlapped => e \in OverlapEnvelopes
  /\ Becomes(onmessage(Now, sockets[t].handlers[1], e))
  /\ UNCHANGED overlapped

\* An envelope arrives on a transport that has no onmessage handler: the
\* one connect() created, until receiveResult() assigns its handlers.  The
\* message event is dispatched to no listener and nothing of the program
\* changes; the arrival is followed until calls overlap.
SocketMessageUnheard(t, e) ==
  /\ sockets[t].readyState = "OPEN"
  /\ sockets[t].handlers = << >>
  /\ sockets[t] # Leaked
  /\ ~overlapped
  /\ Becomes([Now EXCEPT !.sockets[t].unheard = TRUE])
  /\ UNCHANGED overlapped

ConnectionTimeout(t) ==
  /\ sockets[t].connectionTimeout
  /\ Becomes(onConnectionTimeout(Now, t))
  /\ UNCHANGED overlapped

ResultTimeout(c) ==
  /\ call[c].timeout
  /\ Becomes(onResultTimeout(Now, c))
  /\ UNCHANGED overlapped

KeepAliveTick(k) ==
  /\ k \in intervals
  /\ Becomes(onKeepAlive(Now))
  /\ UNCHANGED overlapped

\* The 200 ms pause after the configuration frame is over.
SettleElapsed(c) ==
  /\ call[c].pc = "settling"
  /\ Becomes(sendLoop(Now, c, 0))
  /\ UNCHANGED overlapped

\* The 30 ms pause after a chunk is over: i += chunk_size.
PaceElapsed(c) ==
  /\ call[c].pc = "pacing"
  /\ Becomes(sendLoop(Now, c, call[c].i + chunk_size))
  /\ UNCHANGED overlapped

\* The 300 ms pause after the last chunk is over.
DrainElapsed(c) ==
  /\ call[c].pc = "draining"
  /\ Becomes(receiveResult(Now, c))
  /\ UNCHANGED overlapped

\* The backoff wait is over: the next iteration of the retry loop.
BackoffElapsed(c) ==
  /\ call[c].pc = "backoff"
  /\ overlapped => Len(sockets) < MaxOverlapSockets
  /\ Becomes(connect(Now, c))
  /\ UNCHANGED overlapped

Environment ==
  \/ \E t \in Sockets : SocketOpen(t)
  \/ \E t \in Sockets : SocketError(t)
  \/ \E t \in Sockets : SocketClose(t)
  \/ \E t \in Sockets, e \in Envelopes : SocketMessage(t, e)
  \/ \E t \in Sockets, e \in Envelopes : SocketMessageUnheard(t, e)

Timers ==
  \/ \E t \in Sockets : ConnectionTimeout(t)
  \/ \E c \in Calls : ResultTimeout(c)
  \/ \E k \in Sockets : KeepAliveTick(k)
  \/ \E c \in Calls : SettleElapsed(c)
  \/ \E c \in Calls : PaceElapsed(c)
  \/ \E c \in Calls : DrainElapsed(c)
  \/ \E c \in Calls : BackoffElapsed(c)

Next ==
  \/ \E c \in Calls, a \in AudioLens : evaluateSpeech(c, a)
  \/ Environment
  \/ Timers

Spec == Init /\ [][Next]_vars

\* The same instance used by callers that do not wait for one another.
NextOverlap ==
  \/ \E c \in Calls : evaluateSpeechOverlapping(c, OverlapAudioLen)
  \/ Next

SpecOverlap == Init /\ [][NextOverlap]_vars

\* The owner of the instance calls destroy(), at any moment.
DestroyCalled ==
  /\ Becomes(destroy(Now))
  /\ UNCHANGED overlapped

NextDestroy ==
  \/ DestroyCalled
  \/ Next

SpecDestroy == Init /\ [][NextDestroy]_vars

(* ----------------------- the result wait observed --------------------- *)

\* An envelope with data.status = 2 and an empty or missing payload, no
\* error code.
EmptyFinal(e) ==
  e.json /\ e.code = 0 /\ e.hasData /\ e.status = 2 /\ ~Truthy(e.data)

\* What the peer sends in the observed wait: the envelopes, and a status 2
\* envelope without payload that carries action "error".
ReceiveEnvelopes ==
  Envelopes \cup {Envelope("finalEmptyError", TRUE, 0, TRUE, 2, NoData, "error")}

\* SocketMessage(t, e), the empty final envelopes the closure handled and
\* still waits after being counted.
SocketMessageCounted(t, e) ==
  /\ sockets[t].readyState = "OPEN"
  /\ ReceivePending(Now, sockets[t].handlers)
  /\ call[sockets[t].handlers[1]].messageCount < MaxMessages
  /\ LET c == sockets[t].handlers[1]
         s == onmessage(Now, c, e)
     IN Becomes(IF EmptyFinal(e) /\ ReceivePending(s, sockets[t].handlers)
                THEN [s EXCEPT !.call[c].emptyFinals = @ + 1]
                ELSE s)
  /\ UNCHANGED overlapped

\* One call, the envelopes its result waits handle being counted.
NextReceive ==
  \/ \E a \in AudioLens : evaluateSpeech(1, a)
  \/ \E t \in Sockets : SocketOpen(t)
  \/ \E t \in Sockets : SocketError(t)
  \/ \E t \in Sockets : SocketClose(t)
  \/ \E t \in Sockets, e \in ReceiveEnvelopes : SocketMessageCounted(t, e)
  \/ \E t \in Sockets, e \in Envelopes : SocketMessageUnheard(t, e)
  \/ Timers

SpecReceive == Init /\ [][NextReceive]_vars

(* --------------------------- the parser alone -------------------------- *)

\* Elements per payload
MaxElements == 2

ParserTags == {"overall_score", "overall", "fluency", "word", "note"}

\* Contents: not a number, 0, in range, above 100
ParserVals == {-1, 0, 54, 87, 150}

ParserElements == [tag : ParserTags, val : ParserVals]

ParserPayloads ==
  UNION {[1 .. n -> ParserElements] : n \in 0 .. MaxElements}

\* Final envelopes: without data member, with data.data absent, "", not a
\* string, or a string.
ParserInputs ==
  { Envelope("final", TRUE, 0, FALSE, 0, NoData, ""),
    Envelope("final", TRUE, 0, TRUE, 2, NoData, ""),
    Envelope("final", TRUE, 0, TRUE, 2, EmptyData, ""),
    Envelope("final", TRUE, 0, TRUE, 2, OpaqueData, "") }
  \cup { Envelope("final", TRUE, 0, TRUE, 2, TextData(p), "") :
           p \in ParserPayloads }

InitParser ==
  /\ InitInstance
  /\ framerRun = FramerIdle
  /\ signerRun = SignerIdle
  /\ signerRun = SignerIdle
  /\ parserRun \in {[ParserIdle EXCEPT !.input = e] : e \in ParserInputs}

\* parseRealResult(data) is called on the input.
ParseCalled ==
  /\ ~parserRun.done
  /\ parserRun' =
       [input |-> parserRun.input, done |-> TRUE,
        raised |-> parseRealResultCall(parserRun.input).raised,
        result |-> parseRealResultCall(parserRun.input).result]
  /\ UNCHANGED << instance, framerRun, signerRun >>

NextParser == ParseCalled

SpecParser == InitParser /\ [][NextParser]_vars

(* -------------------------- the chunk loop alone ----------------------- *)

\* The chunk loop of evaluateSpeech (and of testCompleteFlow) on audio of
\* any length and with any chunk size, every send succeeding: the lengths
\* 0 .. MaxAudio with the sizes 1 .. MaxChunk, and 96000 bytes (three
\* seconds at 16 kHz, 16 bit) with the configured chunk_size.
MaxAudio == 9

MaxChunk == 4

FramerInputs ==
  { [byteLength |-> l, chunk_size |-> z, i |-> 0, frames |-> << >>,
     done |-> FALSE] : l \in 0 .. MaxAudio, z \in 1 .. MaxChunk }
  \cup { [byteLength |-> 96000, chunk_size |-> chunk_size, i |-> 0,
          frames |-> << >>, done |-> FALSE] }

InitFramer ==
  /\ InitInstance
  /\ parserRun = ParserIdle
  /\ signerRun = SignerIdle
  /\ framerRun \in FramerInputs

\* One iteration: for (...; i < byteLength; i += chunk_size) sends the
\* chunk at i.
ChunkSent ==
  /\ ~framerRun.done
  /\ framerRun.i < framerRun.byteLength
  /\ LET k == Chunk(framerRun.byteLength, framerRun.chunk_size, framerRun.i)
     IN framerRun' =
          [framerRun EXCEPT
             !.frames = Append(@, AudioFrame(0, framerRun.i, k.len, k.isLast,
                                             k.isFirst)),
             !.i = @ + framerRun.chunk_size]
  /\ UNCHANGED << instance, parserRun, signerRun >>

\* The loop condition is false: the loop is left.
LoopLeft ==
  /\ ~framerRun.done
  /\ ~(framerRun.i < framerRun.byteLength)
  /\ framerRun' = [framerRun EXCEPT !.done = TRUE]
  /\ UNCHANGED << instance, parserRun, signerRun >>

NextFramer ==
  \/ ChunkSent
  \/ LoopLeft

SpecFramer == InitFramer /\ [][NextFramer]_vars

(* ----------------------- attempts against the clock -------------------- *)

\* The connection attempts of calls made one after the other, with the
\* clock: what connect() signs and opens at each attempt.  The clock counts
\* ticks of 500 ms, up to MaxClock; an attempt may fail at any time after
\* it started and succeed once its pauses of 200 ms and 300 ms are over.
TicksPerSecond == 2

MaxClock == 7

MaxAttempts == 5

\* new Date().toUTCString(): the time to the second.
toUTCString(now) == now \div TicksPerSecond

\* generateSignature() signing a string without the date line.
generateSignatureUndated(now) ==
  [host |-> "ise-api.xfyun.cn", date |-> toUTCString(now),
   authorization |-> << "hmac-sha256", 0 >>]

\* generateSignature() at clock reading now: the URL with the date and the
\* HMAC-SHA256 of the string to sign, which varies with the date only.
generateSignature(now) ==
  [host |-> "ise-api.xfyun.cn", date |-> toUTCString(now),
   authorization |-> << "hmac-sha256", toUTCString(now) >>]

\* connect() keeping the URL it signed first.
connectWithFirstUrl(run, k) ==
  [run EXCEPT
     !.pc = "attempt", !.retryCount = k,
     !.attempts = Append(@, [call |-> run.calls, retryCount |-> k,
                             at |-> run.now,
                             url |-> IF run.attempts = << >>
                                     THEN generateSignature(run.now)
                                     ELSE run.attempts[1].url,
                             websocket |-> Len(run.attempts) + 1])]

\* connect() in the iteration with retryCount = k: const url =
\* this.generateSignature(); this.websocket = new WebSocket(url).
connectAt(run, k) ==
  [run EXCEPT
     !.pc = "attempt", !.retryCount = k,
     !.attempts = Append(@, [call |-> run.calls, retryCount |-> k,
                             at |-> run.now,
                             url |-> generateSignature(run.now),
                             websocket |-> Len(run.attempts) + 1])]

InitSigner ==
  /\ InitInstance
  /\ parserRun = ParserIdle
  /\ framerRun = FramerIdle
  /\ signerRun = SignerIdle

\* 500 ms pass.
ClockTick ==
  /\ signerRun.now < MaxClock
  /\ signerRun' = [signerRun EXCEPT !.now = @ + 1]
  /\ UNCHANGED << instance, parserRun, framerRun >>

\* evaluateSpeech() is called: retryCount = 0, the first connect().
FirstAttempt ==
  /\ signerRun.pc = "idle"
  /\ Len(signerRun.attempts) < MaxAttempts
  /\ signerRun' = connectAt([signerRun EXCEPT !.calls = @ + 1], 0)
  /\ UNCHANGED << instance, parserRun, framerRun >>

\* The attempt succeeds: return result.
AttemptReturns ==
  /\ signerRun.pc = "attempt"
  /\ signerRun.now > signerRun.attempts[Len(signerRun.attempts)].at
  /\ signerRun' = [signerRun EXCEPT !.pc = "idle"]
  /\ UNCHANGED << instance, parserRun, framerRun >>

\* The attempt fails: the catch block, which throws after maxRetries
\* attempts and otherwise waits retryCount * 1000 ms.
AttemptThrows ==
  /\ signerRun.pc = "attempt"
  /\ LET n == signerRun.retryCount + 1
     IN signerRun' =
          IF n >= maxRetries
          THEN [signerRun EXCEPT !.pc = "idle", !.retryCount = n]
          ELSE [signerRun EXCEPT !.pc = "backoff", !.retryCount = n,
                                 !.wakeAt = signerRun.now + n * TicksPerSecond]
  /\ UNCHANGED << instance, parserRun, framerRun >>

\* The backoff wait is over: the next iteration, the next connect().
NextAttempt ==
  /\ signerRun.pc = "backoff"
  /\ signerRun.now >= signerRun.wakeAt
  /\ Len(signerRun.attempts) < MaxAttempts
  /\ signerRun' = connectAt(signerRun, signerRun.retryCount)
  /\ UNCHANGED << instance, parserRun, framerRun >>

NextSigner ==
  \/ ClockTick
  \/ FirstAttempt
  \/ AttemptReturns
  \/ AttemptThrows
  \/ NextAttempt

SpecSigner == InitSigner /\ [][NextSigner]_vars

(* ------------------------------ fairness ------------------------------ *)

\* Timers that are set fire, a suspended evaluateSpeech() resumes when
\* its pause is over, and no connection lasts forever.  Nothing obliges
\* the peer to accept a connection or to send, nor a caller to call.
SocketIds == 1 .. (MaxSockets + maxRetries)

Fairness ==
  /\ \A t \in SocketIds : WF_vars(t \in Sockets /\ ConnectionTimeout(t))
  /\ \A t \in SocketIds : WF_vars(t \in Sockets /\ SocketClose(t))
  /\ \A c \in Calls : WF_vars(ResultTimeout(c))
  /\ \A c \in Calls : WF_vars(SettleElapsed(c))
  /\ \A c \in Calls : WF_vars(PaceElapsed(c))
  /\ \A c \in Calls : WF_vars(DrainElapsed(c))
  /\ \A c \in Calls : WF_vars(BackoffElapsed(c))

FairSpec == Spec /\ Fairness

(* ----------------------------- properties ----------------------------- *)

\* The call c leaves evaluateSpeech in this step.
Settles(c) == call[c].pc # "done" /\ call'[c].pc = "done"

\* An envelope e is handled in this step by the unsettled receiveResult()
\* of call c.
Handles(c, e) ==
  /\ call[c].pc = "awaiting"
  /\ \E t \in Sockets :
       /\ sockets[t].handlers # << >>
       /\ sockets[t].handlers[1] = c
       /\ SocketMessage(t, e)

\* The transports that were created and are closed neither by the client
\* nor by the peer.
Live == {t \in Sockets : sockets[t].readyState \in {"CONNECTING", "OPEN"}}

\* C1: a call makes at most maxRetries (3) connection attempts; once it
\* has settled it starts no further attempt; and a call that returns a
\* result returns the one parsed from the final envelope that arrived on
\* the transport of the attempt it is in, which is its last attempt: after
\* two failed attempts, the result of attempt 3.
C1_AtMostThreeAttempts ==
  [][\A c \in Calls :
       /\ call'[c].attempts <= maxRetries
       /\ call[c].pc = "done" =>
            /\ call'[c].pc = "done"
            /\ call'[c].attempts <= call[c].attempts
       /\ Settles(c) /\ call'[c].outcome.kind = "result" =>
            /\ call[c].attempts = call[c].retryCount + 1
            /\ call'[c].attempts = call[c].attempts
            /\ \E e \in Envelopes :
                 /\ Handles(c, e)
                 /\ sockets[call[c].sock].owner = c
                 /\ sockets[call[c].sock].attempt = call[c].retryCount
                 /\ sockets[call[c].sock].handlers = << c, call[c].retryCount >>
                 /\ call'[c].outcome = Returned(parseRealResult(e))
    ]_vars

\* Attempts 1 and 2 of a call failed, attempt 3 succeeded and the call
\* returned.
C1_ThirdAttemptSucceeded ==
  \E c \in Calls :
    /\ call[c].pc = "done"
    /\ call[c].outcome.kind = "result"
    /\ call[c].retryCount = 2
    /\ call[c].attempts = 3

\* C2: every call settles, and settles once: a call in flight leads to a
\* settled call, and no call returns or throws to its caller twice.
C2_SettlesExactlyOnce ==
  /\ \A c \in Calls : [](call[c].settles <= 1)
  /\ \A c \in Calls : InFlight(c) ~> (call[c].pc = "done")

\* C3: when a call settles, with a result or with the aggregated error,
\* the instance holds no transport and no heartbeat interval, no interval
\* is left running, and the transport of the last attempt is closed.
C3_TornDownWhenSettled ==
  [][\A c \in Calls :
       Settles(c) =>
         /\ websocket' = 0
         /\ keepAliveInterval' = 0
         /\ intervals' = {}
         /\ sockets'[call[c].sock].readyState \in {"CLOSING", "CLOSED"}
    ]_vars

\* The error thrown in this step inside the try block of call c.
ThrownIn(c, err) ==
  \/ /\ call[c].pc = "connecting"
     /\ \E t \in Sockets : SocketError(t) \/ ConnectionTimeout(t)
     /\ err = Err("connect failed", 0)
  \/ /\ call[c].pc = "connecting"
     /\ \E t \in Sockets : SocketOpen(t)
     /\ err = Err("config send failed", 0)
  \/ /\ SettleElapsed(c)
     /\ err = Err("chunk send failed", 1)
  \/ /\ PaceElapsed(c)
     /\ err = Err("chunk send failed", ((call[c].i + chunk_size) \div chunk_size) + 1)
  \/ /\ DrainElapsed(c)
     /\ err = Err("WebSocket not connected", 0)
  \/ /\ ResultTimeout(c)
     /\ err = Err("result timeout", 0)
  \/ /\ call[c].pc = "awaiting"
     /\ \E t \in Sockets : SocketError(t)
     /\ err = Err("WebSocket error", 0)
  \/ /\ call[c].pc = "awaiting"
     /\ \E t \in Sockets : SocketClose(t)
     /\ err = Err("WebSocket closed", 0)
  \/ \E e \in Envelopes :
       /\ Handles(c, e)
       /\ \/ e.code # 0 /\ err = Err("API error", 0)
          \/ e.code = 0 /\ e.status = 3 /\ err = Err("evaluation rejected", 0)
          \/ e.code = 0 /\ e.status = 4
               /\ err = Err("evaluation finished without data", 0)
          \/ e.code = 0 /\ e.action = "error"
               /\ err = Err("API action error", 0)

\* C4: a call that settles with an error does so in its third attempt,
\* with the aggregated error that names maxRetries (3) and carries the
\* error thrown in that step of the third attempt.
C4_AggregatedErrorIsLast ==
  [][\A c \in Calls :
       Settles(c) /\ call'[c].outcome.kind = "error" =>
         /\ call[c].attempts = maxRetries
         /\ call[c].retryCount = maxRetries - 1
         /\ call'[c].outcome.attempts = maxRetries
         /\ call'[c].settles = 1
         /\ ThrownIn(c, call'[c].outcome.error)
    ]_vars

\* All three attempts of a call failed, the last by the result timer.
C4_ThreeAttemptsFailed ==
  \E c \in Calls :
    /\ call[c].pc = "done"
    /\ call[c].attempts = maxRetries
    /\ call[c].outcome = Aggregated(Err("result timeout", 0))

\* C5: with callers that await each call, at most one transport is live.
C5_AtMostOneLive == Cardinality(Live) <= 1

\* A frame of call c is put on transport t in this step.
Sends(c, t) ==
  /\ sockets'[t].frames # sockets[t].frames
  /\ sockets'[t].frames # << >>
  /\ sockets'[t].frames[Len(sockets'[t].frames)].by = c

\* Call c closes transport t in this step.
Closes(c, t) ==
  /\ sockets'[t].closedBy = c
  /\ sockets[t].closedBy # c

\* A frame of one call lies on the transport another call opened.
CrossSent ==
  \E t \in Sockets : \E j \in 1 .. Len(sockets[t].frames) :
    sockets[t].frames[j].by \notin {0, sockets[t].owner}

\* The transport a call in flight opened and is using was closed by the
\* teardown of another call.
CrossClosed ==
  \E t \in Sockets :
    /\ sockets[t].closedBy \notin {0, sockets[t].owner}
    /\ InFlight(sockets[t].owner)
    /\ call[sockets[t].owner].sock = t

\* C6: overlapping calls share this.websocket: every frame a call sends
\* goes to the transport this.websocket holds at that moment and every
\* teardown closes that transport, whichever call opened it; a frame on
\* the transport of another call, or a transport closed under the call that
\* uses it, occur only when calls overlapped.
C6_CallsShareTransport ==
  [][/\ \A c \in Calls, t \in Sockets :
          (Sends(c, t) \/ Closes(c, t)) => t = websocket
     /\ (CrossSent' \/ CrossClosed') => overlapped'
    ]_vars

\* Two calls overlapped: a frame of one went out on the transport the other
\* opened, and the teardown of one closed the transport the other was using.
C6_Race == CrossSent /\ CrossClosed

\* C7: an envelope with data.status = 3 handled while awaiting the result
\* settles the call with a result marked rejected.
C7_RejectionIsAnOutcome ==
  [][\A c \in Calls, e \in Envelopes :
       Handles(c, e) /\ e.json /\ e.code = 0 /\ e.hasData /\ e.status = 3 =>
         /\ Settles(c)
         /\ call'[c].outcome.kind = "result"
         /\ call'[c].outcome.result.is_rejected
    ]_vars

\* The state a connection failure of transport t would lead to.
AfterTransportFailure(t) ==
  onclose(onerror([Now EXCEPT !.sockets[t].readyState = "CLOSED"], t), t)

\* C8: an envelope with data.status = 3, or with a nonzero code, handled
\* while awaiting the result consumes an attempt, tears the transport and
\* the heartbeat down, and leaves the call backing off before a new attempt
\* with the same text and audio, or, in the third attempt, settled with
\* the aggregated error; but for the error message the call and the
\* instance are as a connection failure would have left them.
C8_RejectionRetried ==
  [][\A c \in Calls, e \in Envelopes :
       e.json /\ (e.code # 0 \/ (e.hasData /\ e.status = 3)) /\ Handles(c, e) =>
         LET n == call[c].retryCount + 1
             f == AfterTransportFailure(call[c].sock)
         IN /\ call'[c].retryCount = n
            /\ websocket' = 0
            /\ ~isConnected'
            /\ keepAliveInterval' = 0
            /\ intervals' = {}
            /\ sockets'[call[c].sock].readyState = "CLOSING"
            /\ call'[c].text = call[c].text
            /\ call'[c].audio = call[c].audio
            /\ call'[c].attempts = call[c].attempts
            /\ IF n < maxRetries
               THEN /\ call'[c].pc = "backoff"
                    /\ call'[c].waitTime = n * 1000
                    /\ call'[c].outcome = Pending
               ELSE /\ call'[c].pc = "done"
                    /\ call'[c].outcome.kind = "error"
                    /\ call'[c].outcome.attempts = maxRetries
            /\ [call'[c] EXCEPT !.outcome.error = NoError]
                 = [f.call[c] EXCEPT !.outcome.error = NoError]
            /\ websocket' = f.websocket
            /\ isConnected' = f.isConnected
            /\ keepAliveInterval' = f.keepAliveInterval
            /\ intervals' = f.intervals
    ]_vars

\* A call whose third attempt was rejected by the server settled with the
\* aggregated error.
C8_RejectedThreeTimes ==
  \E c \in Calls :
    /\ call[c].pc = "done"
    /\ call[c].retryCount = maxRetries
    /\ call[c].outcome.kind = "error"
    /\ call[c].outcome.error.msg \in {"evaluation rejected", "API error"}

\* C9: a status 1 envelope handled while awaiting the result leaves the
\* call waiting, unsettled, its timer set and its attempt going on; a
\* status 2 envelope with a text payload settles it with the result
\* parsed from that envelope.
C9_InterimThenFinal ==
  [][\A c \in Calls, e \in Envelopes :
       e.json /\ e.code = 0 /\ e.hasData
         /\ (e.status = 1 \/ (e.status = 2 /\ e.data.type = "text"))
         /\ Handles(c, e) =>
         /\ e.status = 1 =>
              /\ call'[c] = [call[c] EXCEPT !.messageCount = @ + 1,
                                            !.interim = (@ \/ e.kind = "interim")]
              /\ call'[c].pc = "awaiting"
              /\ call'[c].outcome = Pending
              /\ websocket' = websocket
              /\ sockets' = sockets
         /\ e.status = 2 /\ e.data.type = "text" =>
              /\ Settles(c)
              /\ call'[c].outcome.kind = "result"
              /\ call'[c].outcome.result.score
                   = [d \in Dimensions |->
                       LET m == MatchTag(e.data.xml, PrimaryTag(d))
                           a == MatchTag(e.data.xml, d)
                       IN IF m # << >> THEN m[1]
                          ELSE IF a # << >> THEN a[1] ELSE 0]
              /\ call'[c].outcome.result.raw_result = e
    ]_vars

\* A call returned the result of a final envelope that followed an
\* interim envelope carrying another payload.
C9_ResolvedAfterInterim ==
  \E c \in Calls :
    /\ call[c].pc = "done"
    /\ call[c].outcome.kind = "result"
    /\ call[c].interim
    /\ call[c].outcome.result.raw_result.data = TextData(Payload1)
    /\ call[c].outcome.result.score["overall"] = 87

\* C10: an envelope that is not JSON, or whose payload has not the
\* expected shape, handled while awaiting the result leaves the call
\* waiting and unsettled and leaves the 90 s result timer as it was.
C10_UnparsableIgnored ==
  [][\A c \in Calls, e \in Envelopes :
       Handles(c, e) /\ (~e.json \/ e.data.type = "opaque") =>
         /\ call'[c].pc = "awaiting"
         /\ call'[c].outcome = Pending
         /\ call'[c].timeout = call[c].timeout
    ]_vars

\* C11: destroy() called in any state the instance can be in, in whatever
\* phase a call in flight is, leaves no heartbeat interval active, the
\* instance holding no transport and no interval and marked not connected,
\* and the transport it held closing or closed.
C11_DestroyTearsDown ==
  LET d == destroy(Now)
  IN /\ d.intervals = {}
     /\ d.keepAliveInterval = 0
     /\ d.websocket = 0
     /\ ~d.isConnected
     /\ websocket # 0 => d.sockets[websocket].readyState \in {"CLOSING", "CLOSED"}
     /\ d.call = call

\* destroy() was called while a call was waiting for the result on an open
\* transport with the heartbeat running.
C11_DestroyedWhileAwaiting ==
  \E c \in Calls :
    /\ call[c].pc = "awaiting"
    /\ websocket = 0
    /\ sockets[call[c].sock].closedBy = -1
    /\ sockets[call[c].sock].readyState = "CLOSING"

\* The parser returned a result for the payload xml.
Parsed ==
  /\ parserRun.done
  /\ ~parserRun.raised
  /\ parserRun.input.data.type = "text"

\* The contents of the elements of xml with that tag, in payload order.
Contents(xml, tag) ==
  LET hits == SelectSeq(xml, LAMBDA x : x.tag = tag)
  IN [i \in 1 .. Len(hits) |-> hits[i].val]

\* C12: per dimension the parser returns the value of the primary
\* tag when the payload has that tag, otherwise the value of the alternate
\* tag when the payload has it, otherwise 0.
C12_PrimaryThenAlternate ==
  Parsed =>
    \A d \in Dimensions :
      LET xml == parserRun.input.data.xml
          primary == Contents(xml, PrimaryTag(d))
          alternate == Contents(xml, d)
      IN parserRun.result.score[d] =
           IF primary # << >> THEN primary[1]
           ELSE IF alternate # << >> THEN alternate[1] ELSE 0

\* What a result tells apart from the envelope it echoes in raw_result.
Report(r) == [r EXCEPT !.raw_result = << >>]

\* C13: when a dimension was not found in the payload, the result differs,
\* outside its echo of the envelope, from the result for the same payload
\* with that dimension scored 0.
C13_NotFoundIsFlagged ==
  Parsed =>
    \A d \in Dimensions :
      LET e == parserRun.input
          xml == e.data.xml
          scored == [e EXCEPT !.data.xml =
                       Append(xml, [tag |-> PrimaryTag(d), val |-> 0])]
      IN Contents(xml, PrimaryTag(d)) = << >> /\ Contents(xml, d) = << >> =>
           Report(parseRealResultCall(scored).result) # Report(parserRun.result)

\* C14 as stated: the parser raises exactly when the envelope has no
\* payload; for a payload that is present it returns a result.
C14_RaisesOnlyWhenAbsent ==
  parserRun.done =>
    (parserRun.raised <=>
       (~parserRun.input.hasData \/ parserRun.input.data.type = "none"))

\* C14, amended: the parser raises exactly when the envelope has no payload
\* or the payload is the empty string; for every other payload, a string
\* without score tags and word elements and a value that is no string
\* included, it returns a result with seven scores.
C14_RaisesOnlyWhenFalsy ==
  parserRun.done =>
    /\ parserRun.raised <=>
         (~parserRun.input.hasData
          \/ parserRun.input.data.type \in {"none", "empty"})
    /\ ~parserRun.raised =>
         /\ DOMAIN parserRun.result.score = Dimensions
         /\ parserRun.result.raw_result = parserRun.input

\* A payload without score tags and word elements was parsed to a result
\* of zeros and no word details.
C14_NothingFound ==
  /\ Parsed
  /\ parserRun.input.data.xml = << [tag |-> "note", val |-> -1] >>
  /\ parserRun.result.score = [d \in Dimensions |-> 0]
  /\ parserRun.result.word_details = << >>

\* C15: every score of a result is an integer from 0 to 100.
C15_ScoresInRange ==
  parserRun.done /\ ~parserRun.raised =>
    \A d \in Dimensions : parserRun.result.score[d] \in 0 .. 100

\* The call c has sent the LAST chunk of its current attempt on transport t.
LastChunkSent(c, t) ==
  /\ sockets[t].owner = c
  /\ sockets[t].attempt = call[c].retryCount
  /\ call[c].pc \in {"draining", "awaiting"}
  /\ \E n \in 1 .. Len(sockets[t].frames) :
       sockets[t].frames[n].kind = "audio" /\ sockets[t].frames[n].aus = 4

\* The envelope e is delivered on transport t in this step.
Delivered(t, e) == SocketMessage(t, e) \/ SocketMessageUnheard(t, e)

\* C16: a final envelope with a payload delivered on the connection of an
\* attempt at any time after the send of its LAST chunk completes the call
\* with the result parsed from that envelope.
C16_FinalAfterLastChunkCompletes ==
  [][\A t \in Sockets, e \in Envelopes :
       e.kind = "final" /\ Delivered(t, e) /\ LastChunkSent(sockets[t].owner, t) =>
         /\ call'[sockets[t].owner].pc = "done"
         /\ call'[sockets[t].owner].outcome = Returned(parseRealResult(e))]_vars

\* C17: on every connection the first frame sent is the configuration
\* frame, with data.status = 0 and the target text of the call prefixed with
\* U+FEFF; no second configuration frame is sent on it, and so every audio
\* frame on it comes after its configuration frame.
C17_ConfigFirstAndOnce ==
  \A t \in Sockets :
    LET log == sockets[t].frames
    IN log # << >> =>
         /\ log[1].kind = "config"
         /\ log[1].status = 0
         /\ log[1].text = << BOM, call[log[1].by].text >>
         /\ \A n \in 2 .. Len(log) : log[n].kind # "config"

\* A connection on which the configuration frame and then two audio
\* frames were sent.
C17_ConfigThenAudio ==
  \E t \in Sockets :
    /\ Len(sockets[t].frames) = 3
    /\ sockets[t].frames[1].kind = "config"
    /\ sockets[t].frames[2].kind = "audio"
    /\ sockets[t].frames[3].kind = "audio"

\* The audio frames sent on transport t, in the order of their sends.
AudioFrames(t) == SelectSeq(sockets[t].frames, LAMBDA f : f.kind = "audio")

\* The chunk loop of call c runs an iteration in this step, with the
\* instance in a state in which sendAudioChunk returns false.
ChunkSendFails(c) ==
  /\ \/ SettleElapsed(c) /\ 0 < call[c].audio
     \/ PaceElapsed(c) /\ call[c].i + chunk_size < call[c].audio
  /\ websocket = 0 \/ ~isConnected

\* C18: the audio frames sent on the connection of an attempt are at the
\* byte offsets 0, C, 2C, ... in this order, each starting where the one
\* before it ends; and a chunk send that fails ends the attempt: no further
\* frame is sent and the call goes on to its next attempt or settles.
C18_ChunksInOrder ==
  /\ [](\A t \in Sockets :
         \A n \in 1 .. Len(AudioFrames(t)) :
           /\ AudioFrames(t)[n].offset = (n - 1) * chunk_size
           /\ n > 1 => AudioFrames(t)[n].offset =
                         AudioFrames(t)[n - 1].offset + AudioFrames(t)[n - 1].len)
  /\ [][\A c \in Calls :
         ChunkSendFails(c) =>
           /\ call'[c].retryCount = call[c].retryCount + 1
           /\ call'[c].pc \in {"backoff", "done"}
           /\ \A t \in Sockets :
                Len(sockets'[t].frames) <= Len(sockets[t].frames)]_vars

\* Two audio frames were sent on a connection, at the offsets 0 and C.
C18_TwoChunksSent ==
  \E t \in Sockets :
    /\ Len(AudioFrames(t)) = 2
    /\ AudioFrames(t)[1].offset = 0
    /\ AudioFrames(t)[2].offset = chunk_size

\* Math.ceil(l / z)
Ceil(l, z) == (l + z - 1) \div z

\* The bytes of the frames together.
RECURSIVE TotalLen(_)
TotalLen(frames) ==
  IF frames = << >> THEN 0 ELSE frames[1].len + TotalLen(Tail(frames))

\* The frames flagged LAST: aus = 4, data.status = 2.
FlaggedLast(frames) ==
  {n \in 1 .. Len(frames) : frames[n].aus = 4 /\ frames[n].status = 2}

\* The chunk loop ran to its end: the stream has ceil(L/C) chunks whose
\* sizes sum to L, each but the last of size C.
ChunksCoverAudio ==
  LET f == framerRun.frames
  IN /\ Len(f) = Ceil(framerRun.byteLength, framerRun.chunk_size)
     /\ TotalLen(f) = framerRun.byteLength
     /\ \A n \in 1 .. Len(f) - 1 : f[n].len = framerRun.chunk_size

\* C19 as stated: for every length L, 0 included, and chunk size C the
\* stream has ceil(L/C) chunks whose sizes sum to L, each but the last of
\* size C, and exactly one chunk is flagged LAST.
C19_ExactlyOneLast ==
  framerRun.done =>
    /\ ChunksCoverAudio
    /\ Cardinality(FlaggedLast(framerRun.frames)) = 1

\* C19, amended: for every length L and chunk size C the stream has
\* ceil(L/C) chunks whose sizes sum to L, each but the last of size C; for
\* L > 0 exactly one chunk is flagged LAST, the final one, and for L = 0 the
\* stream has no chunk and so none flagged LAST.
C19_OneLastUnlessEmpty ==
  framerRun.done =>
    /\ ChunksCoverAudio
    /\ IF framerRun.byteLength > 0
       THEN FlaggedLast(framerRun.frames) = {Len(framerRun.frames)}
       ELSE framerRun.frames = << >>

\* 96000 bytes in chunks of 2560 were sent as 38 chunks, the last one of
\* 1280 bytes and flagged LAST.
C19_ThreeSeconds ==
  /\ framerRun.done
  /\ framerRun.byteLength = 96000
  /\ framerRun.chunk_size = 2560
  /\ Len(framerRun.frames) = 38
  /\ framerRun.frames[38].len = 1280
  /\ framerRun.frames[38].aus = 4

\* C20 as stated: the frame at offset 0 is tagged FIRST (aus = 1), the
\* final frame LAST (aus = 4), every other frame MIDDLE (aus = 2), for
\* every length and chunk size.
C20_FirstMiddleLast ==
  framerRun.done =>
    \A n \in 1 .. Len(framerRun.frames) :
      LET f == framerRun.frames[n]
      IN /\ f.offset = 0 => f.aus = 1
         /\ n = Len(framerRun.frames) => f.aus = 4
         /\ f.offset # 0 /\ n # Len(framerRun.frames) => f.aus = 2

\* C20, amended: the final frame is tagged LAST (aus = 4); the frame at
\* offset 0 is tagged FIRST (aus = 1) unless it is also the final frame,
\* which is the case of audio that fits in a single chunk; every other
\* frame is tagged MIDDLE (aus = 2).
C20_LastOverridesFirst ==
  framerRun.done =>
    \A n \in 1 .. Len(framerRun.frames) :
      LET f == framerRun.frames[n]
      IN f.aus = IF n = Len(framerRun.frames) THEN 4
                 ELSE IF f.offset = 0 THEN 1 ELSE 2

\* Audio that fits in a single chunk was sent as one frame tagged LAST.
C20_SingleChunk ==
  /\ framerRun.done
  /\ Len(framerRun.frames) = 1
  /\ framerRun.frames[1].offset = 0
  /\ framerRun.frames[1].aus = 4

\* C21: of the frames sent on a connection, an audio frame carries
\* data.status = 2 if and only if its chunk ends the audio of its call, the
\* LAST chunk of the attempt; every other audio frame carries data.status =
\* 1 and the configuration frame data.status = 0.
C21_StatusTwoOnlyOnLast ==
  \A t \in Sockets :
    \A n \in 1 .. Len(sockets[t].frames) :
      LET f == sockets[t].frames[n]
      IN /\ f.kind = "config" => f.status = 0
         /\ f.kind = "audio" =>
              f.status = IF f.offset + f.len = call[f.by].audio THEN 2 ELSE 1

\* A connection on which a chunk that is not the last and then the LAST
\* chunk were sent.
C21_MiddleThenLast ==
  \E t \in Sockets :
    /\ Len(AudioFrames(t)) = 2
    /\ AudioFrames(t)[1].status = 1
    /\ AudioFrames(t)[2].status = 2

\* The transport t carries the handlers of the unsettled receiveResult()
\* of call c.
Awaits(c, t) ==
  /\ sockets[t].handlers # << >>
  /\ sockets[t].handlers[1] = c
  /\ ReceivePending(Now, sockets[t].handlers)

\* The current attempt of call c fails in this step: its catch block runs,
\* and the call goes on to the backoff wait or settles with an error.
AttemptFails(c) ==
  /\ call'[c].retryCount = call[c].retryCount + 1
  /\ call'[c].pc \in {"backoff", "done"}
  /\ call'[c].pc = "done" => call'[c].outcome.kind = "error"

\* C22: while a call awaits the result, an envelope with a nonzero code, an
\* error event of the transport, a close event of the transport before a
\* final payload was received, and the elapse of the result wait each fail
\* the current attempt.
C22_WaitFailures ==
  [][\A c \in Calls :
       /\ \A e \in Envelopes :
            e.json /\ e.code # 0 /\ Handles(c, e) => AttemptFails(c)
       /\ \A t \in Sockets :
            /\ Awaits(c, t) /\ SocketError(t) => AttemptFails(c)
            /\ Awaits(c, t) /\ SocketClose(t)
                 /\ ~call[c].hasReceivedFinalResult => AttemptFails(c)
       /\ call[c].pc = "awaiting" /\ ResultTimeout(c) => AttemptFails(c)]_vars

\* A call settled with the error of a transport that closed during the
\* result wait of its last attempt.
C22_ClosedWhileWaiting ==
  \E c \in Calls :
    /\ call[c].pc = "done"
    /\ call[c].outcome.kind = "error"
    /\ call[c].outcome.error = Err("WebSocket closed", 0)

\* The callback of the 15 s timer of transport t is pending and, run now,
\* would settle the connect() promise.
TimerWouldSettle(t) ==
  /\ sockets[t].connectionTimeout
  /\ websocket # 0
  /\ sockets[websocket].readyState = "CONNECTING"

\* C23: connect() always settles, with failure no later than its 15 s
\* bound: as long as its promise is unsettled either the transport has not
\* closed, so that its open or error event is still to come, or the timer
\* is armed and will settle it.
C23_ConnectSettles ==
  \A t \in Sockets :
    sockets[t].owner \in Calls /\ ConnectPending(Now, t) =>
      sockets[t].readyState # "CLOSED" \/ TimerWouldSettle(t)

\* C24: while a call is in the backoff wait after a failed attempt, and so
\* at the moment its next attempt opens a connection, the instance holds no
\* transport and no heartbeat interval, no heartbeat interval is active and
\* no transport the call created is still connecting or open.
C24_TornDownBeforeBackoff ==
  \A c \in Calls :
    call[c].pc = "backoff" =>
      /\ websocket = 0
      /\ keepAliveInterval = 0
      /\ intervals = {}
      /\ \A t \in Sockets : sockets[t].owner = c => t \notin Live

\* A call is in the backoff wait after an attempt whose transport had
\* opened, with its heartbeat started and frames sent, and was closed by
\* the catch block.
C24_BackoffAfterOpenAttempt ==
  \E c \in Calls, t \in Sockets :
    /\ call[c].pc = "backoff"
    /\ sockets[t].owner = c
    /\ sockets[t].frames # << >>
    /\ sockets[t].closedBy = c
    /\ sockets[t].readyState = "CLOSING"

\* C25: every heartbeat send is made on a transport that is open: none is
\* attempted on a transport that is closing or has closed.
C25_HeartbeatOnlyWhileOpen ==
  \A t \in Sockets :
    \A n \in 1 .. Len(sockets[t].frames) :
      sockets[t].frames[n].kind = "heartbeat" =>
        sockets[t].frames[n].readyState = "OPEN"

\* C26: at most one heartbeat interval is active, the one the instance
\* holds in keepAliveInterval.
C26_AtMostOneHeartbeat ==
  /\ Cardinality(intervals) <= 1
  /\ intervals \subseteq {keepAliveInterval}

\* The heartbeat started when the transport of a second call opened
\* cancelled the one the first call had left running.
C26_SecondCancelledFirst ==
  /\ Len(sockets) = 2
  /\ sockets[1] = Leaked
  /\ keepAliveInterval = 2
  /\ intervals = {2}

\* The offset of the chunk the loop of call c sends when its pause is over.
NextOffset(c) ==
  IF call[c].pc = "settling" THEN 0 ELSE call[c].i + chunk_size

\* C27: in every state in which the instance has no transport or is marked
\* not connected, sendConfig and sendAudioChunk send nothing and return
\* false, and a call whose connect() resolved would fail its attempt there
\* with the error of the configuration; and every step in which the chunk
\* loop sends in such a state sends nothing and fails the attempt, a call
\* that settles by it reporting the error with the number of the chunk.
C27_SendFailsFast ==
  /\ [](websocket = 0 \/ ~isConnected =>
          \A c \in Calls :
            /\ sendConfig(Now, c) = [s |-> Now, ok |-> FALSE]
            /\ \A i \in {0, chunk_size}, l, f \in BOOLEAN :
                 sendAudioChunk(Now, c, i, chunk_size, l, f) =
                   [s |-> Now, ok |-> FALSE]
            /\ call[c].pc = "connecting" =>
                 afterConnect(Now, c, TRUE) =
                   catchBlock(Now, c, Err("config send failed", 0)))
  /\ [][\A c \in Calls :
         ChunkSendFails(c) =>
           /\ AttemptFails(c)
           /\ \A t \in Sockets :
                Len(sockets'[t].frames) <= Len(sockets[t].frames)
           /\ call'[c].pc = "done" =>
                call'[c].outcome.error =
                  Err("chunk send failed",
                      (NextOffset(c) \div chunk_size) + 1)]_vars

\* A call settled with the error of its second chunk, whose send failed
\* fast in its last attempt.
C27_SecondChunkFailed ==
  \E c \in Calls :
    /\ call[c].pc = "done"
    /\ call[c].outcome.kind = "error"
    /\ call[c].outcome.error = Err("chunk send failed", 2)

\* C28 as stated: no two connection attempts, of one call or of two, use
\* the same signed URL or the same transport object.
C28_NoUrlUsedTwice ==
  \A i, j \in 1 .. Len(signerRun.attempts) :
    i # j =>
      /\ signerRun.attempts[i].url # signerRun.attempts[j].url
      /\ signerRun.attempts[i].websocket # signerRun.attempts[j].websocket

\* C28, amended: every connection attempt signs its URL from the clock at
\* the time of that attempt and opens a new transport object; no transport
\* object is used by two attempts, and no two attempts of one call use the
\* same signed URL; two attempts of different calls made within the same
\* second of the clock use equal signed URLs.
C28_SignedAtEachAttempt ==
  \A i, j \in 1 .. Len(signerRun.attempts) :
    LET a == signerRun.attempts[i]
        b == signerRun.attempts[j]
    IN /\ a.url = generateSignature(a.at)
       /\ i # j =>
            /\ a.websocket # b.websocket
            /\ a.call = b.call => a.url # b.url
            /\ toUTCString(a.at) = toUTCString(b.at) => a.url = b.url

\* A call made its second attempt, one second after the first failed,
\* with another signed URL and another transport.
C28_RetrySignedAgain ==
  /\ Len(signerRun.attempts) = 2
  /\ signerRun.attempts[1].call = signerRun.attempts[2].call
  /\ signerRun.attempts[1].url # signerRun.attempts[2].url
  /\ signerRun.attempts[1].websocket # signerRun.attempts[2].websocket

\* C29: a call waits after the failure of its attempt k only for k = 1 and
\* k = 2, and then k * 1000 ms; once its attempt 3 has failed it has
\* settled with the aggregated error, without a wait.
C29_LinearBackoff ==
  \A c \in Calls :
    /\ call[c].pc = "backoff" =>
         /\ call[c].attempts \in {1, 2}
         /\ call[c].retryCount = call[c].attempts
         /\ call[c].waitTime = call[c].attempts * 1000
    /\ call[c].retryCount >= 3 =>
         /\ call[c].pc = "done"
         /\ call[c].outcome.kind = "error"

\* A call waits 2000 ms after the failure of its second attempt.
C29_SecondWait ==
  \E c \in Calls :
    /\ call[c].pc = "backoff"
    /\ call[c].attempts = 2
    /\ call[c].waitTime = 2000

\* The transports of retry attempts on which a frame was sent.
Retried == {t \in Sockets : sockets[t].attempt >= 1 /\ sockets[t].frames # << >>}

\* C30 as stated: on the connection of every retry attempt the
\* configuration frame is sent again and the audio is streamed again from
\* offset 0, with a chunk tagged FIRST.
C30_RestartsWithFirst ==
  \A t \in Retried :
    /\ sockets[t].frames[1].kind = "config"
    /\ AudioFrames(t) # << >> =>
         /\ AudioFrames(t)[1].offset = 0
         /\ AudioFrames(t)[1].aus = 1

\* C30, amended: on the connection of every retry attempt the
\* configuration frame is sent again and the audio is streamed again from
\* offset 0, with a chunk tagged FIRST, or tagged LAST when the audio fits
\* in a single chunk; the loop of a retry attempt starts at offset 0.
C30_RestartsFromOffsetZero ==
  /\ \A t \in Retried :
       /\ sockets[t].frames[1].kind = "config"
       /\ AudioFrames(t) # << >> =>
            LET f == AudioFrames(t)[1]
            IN /\ f.offset = 0
               /\ f.aus = IF f.len = call[f.by].audio THEN 4 ELSE 1
  /\ \A c \in Calls : call[c].pc = "settling" => call[c].i = 0

\* A retry attempt sent the configuration frame and both chunks of the
\* audio again.
C30_RetryStreamedAgain ==
  \E t \in Retried :
    /\ sockets[t].frames[1].kind = "config"
    /\ Len(AudioFrames(t)) = 2
    /\ AudioFrames(t)[1].aus = 1

\* C31 as stated: signing at two different instants yields two different
\* signatures, and so two different signed URLs.
C31_InstantsSignDifferently ==
  \A i, j \in 1 .. Len(signerRun.attempts) :
    LET a == signerRun.attempts[i]
        b == signerRun.attempts[j]
    IN a.at # b.at =>
         /\ a.url.authorization # b.url.authorization
         /\ a.url # b.url

\* C31, amended: signing at two instants that fall in different seconds of
\* the clock yields two different signatures, and so two different signed
\* URLs, the date in the signed string being different; signing at two
\* instants of the same second yields the same signature and the same URL.
C31_SecondsSignDifferently ==
  \A i, j \in 1 .. Len(signerRun.attempts) :
    LET a == signerRun.attempts[i]
        b == signerRun.attempts[j]
    IN IF toUTCString(a.at) # toUTCString(b.at)
       THEN /\ a.url.date # b.url.date
            /\ a.url.authorization # b.url.authorization
            /\ a.url # b.url
       ELSE /\ a.url.authorization = b.url.authorization
            /\ a.url = b.url

\* Two calls signed in different seconds, and two at different instants of
\* one second.
C31_SignedAcrossAndWithinSeconds ==
  \E i, j, k \in 1 .. Len(signerRun.attempts) :
    LET a == signerRun.attempts[i]
        b == signerRun.attempts[j]
        d == signerRun.attempts[k]
    IN /\ a.at # b.at
       /\ toUTCString(a.at) = toUTCString(b.at)
       /\ toUTCString(a.at) # toUTCString(d.at)
       /\ a.url.authorization # d.url.authorization

\* destroy() closed the current transport of call c, which is still in
\* flight and has made no connection since.
DestroyedInFlight(c) ==
  /\ InFlight(c)
  /\ \E t \in Sockets : sockets[t].owner = c /\ sockets[t].closedBy = -1

\* C32: once destroy() has been called while a call was connecting,
\* streaming or awaiting the result, that call makes no further connection
\* attempt and the instance keeps no transport and no heartbeat timer.
C32_NothingAfterDestroy ==
  [][\A c \in Calls :
       DestroyedInFlight(c) =>
         /\ call'[c].attempts <= call[c].attempts
         /\ websocket' = 0
         /\ keepAliveInterval' = 0]_vars

\* Transport t belongs to an earlier attempt of the call whose later
\* attempt created the newest transport.
EarlierAttempt(t) ==
  /\ t < Len(sockets)
  /\ sockets[t].owner = sockets[Len(sockets)].owner
  /\ sockets[t].attempt < sockets[Len(sockets)].attempt

\* An event of transport t, or the callback of its connect timer, is
\* handled in this step.
EventOf(t) ==
  \/ SocketOpen(t)
  \/ SocketError(t)
  \/ SocketClose(t)
  \/ \E e \in Envelopes : SocketMessage(t, e)
  \/ ConnectionTimeout(t)

\* C33: an event or timer of the transport of an earlier attempt leaves
\* the connection state of the instance, the newest transport and every
\* call's position and outcome as they were.
C33_StaleEventsChangeNothing ==
  [][\A t \in Sockets :
       EarlierAttempt(t) /\ EventOf(t) =>
         /\ isConnected' = isConnected
         /\ websocket' = websocket
         /\ keepAliveInterval' = keepAliveInterval
         /\ sockets'[Len(sockets)] = sockets[Len(sockets)]
         /\ \A c \in Calls :
              /\ call'[c].pc = call[c].pc
              /\ call'[c].retryCount = call[c].retryCount
              /\ call'[c].outcome = call[c].outcome]_vars

\* C34: on every transport, no frame with data.status = 1 follows the
\* audio frame with data.status = 2; no heartbeat frame follows it.
C34_NothingAfterLastFrame ==
  \A t \in Sockets :
    \A i, j \in 1 .. Len(sockets[t].frames) :
      /\ i < j
      /\ sockets[t].frames[i].kind = "audio"
      /\ sockets[t].frames[i].status = 2
      => /\ sockets[t].frames[j].status # 1
         /\ sockets[t].frames[j].kind # "heartbeat"

\* The call whose receiveResult() assigned the handlers of transport t
\* keeps waiting in this step: not settled, its attempt not failed, its
\* timer and the transport left as they were.
KeepsWaiting(t) ==
  LET c == sockets[t].handlers[1]
  IN /\ call'[c].pc = "awaiting"
     /\ call'[c].retryCount = call[c].retryCount
     /\ call'[c].outcome = Pending
     /\ call'[c].timeout = call[c].timeout
     /\ call'[c].hasReceivedFinalResult = call[c].hasReceivedFinalResult
     /\ websocket' = websocket
     /\ sockets' = sockets

C36_NoDataFailsAttempt ==
  [][\A c \in Calls, e \in Envelopes :
       e.json /\ e.code = 0 /\ e.hasData /\ e.status = 4 /\ Handles(c, e) =>
         LET n == call[c].retryCount + 1
         IN /\ AttemptFails(c)
            /\ call'[c].outcome.kind # "result"
            /\ websocket' = 0
            /\ keepAliveInterval' = 0
            /\ sockets'[call[c].sock].readyState = "CLOSING"
            /\ IF n < maxRetries
               THEN /\ call'[c].pc = "backoff"
                    /\ call'[c].waitTime = n * 1000
               ELSE /\ call'[c].pc = "done"
                    /\ call'[c].outcome.error
                         = Err("evaluation finished without data", 0)]_vars

\* A call settled with the error of a status 4 envelope, received in its
\* third attempt.
C36_NoDataThreeTimes ==
  \E c \in Calls :
    /\ call[c].pc = "done"
    /\ call[c].retryCount = maxRetries
    /\ call[c].outcome.kind = "error"
    /\ call[c].outcome.error.msg = "evaluation finished without data"

\* The generic scan stored a score under a tag name that is no dimension.
ScanStored(xml) == DOMAIN extractScoresFromXML(xml) # Dimensions

\* C37: when parseRealResult has returned, the scores object holds finds
\* of the generic scan only if no dimension was found by its primary or
\* alternate tag, and if none was found the seven scores of the result are
\* all 0.
C37_ScanOnlyWhenNothingNamed ==
  parserRun.done /\ ~parserRun.raised =>
    LET xml == parserRun.input.data.xml
        unnamed == \A d \in Dimensions :
                     /\ MatchTag(xml, PrimaryTag(d)) = << >>
                     /\ MatchTag(xml, d) = << >>
    IN /\ ScanStored(xml) => unnamed
       /\ unnamed => \A d \in Dimensions : parserRun.result.score[d] = 0

\* A result returned for a payload in which the generic scan found a tag
\* that is no dimension, with a number.
C37_ScanFoundOtherTag ==
  /\ parserRun.done
  /\ ~parserRun.raised
  /\ ScanStored(parserRun.input.data.xml)
  /\ extractScoresFromXML(parserRun.input.data.xml)["note"] = << 54 >>
  /\ \A d \in Dimensions : parserRun.result.score[d] = 0

\* The <word ...> elements of a payload, in payload order.
RECURSIVE WordElements(_)
WordElements(xml) ==
  IF xml = << >> THEN << >>
  ELSE IF xml[1].tag = "word"
  THEN << xml[1] >> \o WordElements(Tail(xml))
  ELSE WordElements(Tail(xml))

\* C38: the word details of a returned result are one entry per <word ...>
\* element of the payload, in payload order, each with the content the
\* element has, or the default when it has none, and without errors.
C38_OneEntryPerWordElement ==
  parserRun.done /\ ~parserRun.raised =>
    LET words == WordElements(parserRun.input.data.xml)
        details == parserRun.result.word_details
    IN /\ Len(details) = Len(words)
       /\ \A i \in 1 .. Len(details) :
            /\ words[i].val >= 0 => details[i].content = words[i].val
            /\ details[i].errors = << >>

====
